---- MODULE Spec2Model ----
(***************************************************************************)
(* The task processing pipeline of call-ai-backend: the API server's task  *)
(* handlers (create, reprocess), the broker queue between them and the     *)
(* worker, the worker's dispatcher loop (run_pipe) and the per-delivery    *)
(* handler it spawns (process / process_task / keywords::process_metrics), *)
(* the relational rows they write and the search index.                    *)
(*                                                                         *)
(* Every `?` of the worker's handler is a point where the step may fail    *)
(* (pool acquisition, query, HTTP call, index fault); the model takes the  *)
(* outcome of each such step from BOOLEAN.  In the API server's handlers   *)
(* only the outcomes the handlers themselves distinguish are modelled      *)
(* (row found or not, unique violation); the pool and the broker channel   *)
(* of the API server are taken to be available.                            *)
(***************************************************************************)
EXTENDS Integers, Sequences, FiniteSets, TLC

\* ----------------------------------------------------------------- bounds
\* Number of task rows the model lets the API server insert.
MaxTasks == 2
\* Number of deliveries the broker makes to the worker's consumer.
MaxDeliveries == 2

\* Number of concurrent callers of the indexer taken on its own.
MaxCallers == 2

TaskIds == 1..MaxTasks
Callers == 1..MaxCallers
Deliveries == 1..MaxDeliveries
\* file_hash values of creation requests: the hashes are numbered in the order
\* they are first stored, so a request carries a stored hash or the next one.
Hashes == 1..MaxTasks

\* ------------------------------------------------------------ value spaces
NoRow == [status |-> "norow", failed_reason |-> "none", meta |-> 0]
NoTask == [id |-> 0, status |-> "none", failed_reason |-> "none"]
NoRecog == << >>
\* A message body that does not decode to a task id.
Malformed == 0
Payloads == TaskIds \cup {Malformed}

\* TaskResultKind
Processing == "processing"
Ready == "ready"
Failed == "failed"

\* ParticipantKind
Employee == "employee"
Client == "client"

\* Dictionary ids of the stored configuration.
Dicts == {1, 2}

\* ------------------------------------------------------------------- texts
\* A text (a String of the program) is a sequence of characters.
Lowers == {"a", "e", "f", "h", "i", "k", "l", "n", "o", "u", "w", "y"}
Uppers == {"H", "I"}
Whitespace == {" "}
Punctuation == {",", "-"}
Chars == Lowers \cup Uppers \cup Whitespace \cup Punctuation

\* char::to_lowercase on the characters of the model.
ToLower(c) == IF c = "H" THEN "h" ELSE IF c = "I" THEN "i" ELSE c

\* The maximal runs of characters of `keep` in text s, in order.
Runs(s, keep) ==
    LET starts == {i \in 1..Len(s) : s[i] \in keep /\ (i = 1 \/ s[i - 1] \notin keep)}
        nth(n) == CHOOSE i \in starts : Cardinality({j \in starts : j < i}) = n - 1
        end(i) == CHOOSE j \in i..Len(s) :
                     /\ \A m \in i..j : s[m] \in keep
                     /\ (j = Len(s) \/ s[j + 1] \notin keep)
    IN  [n \in 1..Cardinality(starts) |-> SubSeq(s, nth(n), end(nth(n)))]

\* str::split_whitespace
SplitWhitespace(s) == Runs(s, Chars \ Whitespace)

\* The analyzer registered as "custom_tokenizer": SimpleTokenizer (tokens are
\* the runs of alphanumeric characters) followed by LowerCaser.
CustomTokenizer(s) ==
    LET tokens == Runs(s, Lowers \cup Uppers)
    IN  [n \in 1..Len(tokens) |-> [m \in 1..Len(tokens[n]) |-> ToLower(tokens[n][m])]]

\* What the transcription collaborator may answer: speech_recognition_result,
\* a list of segments, each the text of one speaker.
RecogChoices ==
    { << [speaker |-> Employee, text |-> <<"h", "i">>],
         [speaker |-> Client,   text |-> <<"f", "e", "e">>],
         [speaker |-> Employee, text |-> <<"y", "o", "u">>] >>,
      << [speaker |-> Employee, text |-> <<"o", "k", " ", "n", "o", "w">>],
         [speaker |-> Client,   text |-> <<"h", "i">>] >> }

\* index_speech_recog: the transcript of one speaker, the fold of that
\* speaker's segments with `cur + " " + &next.text`.
RECURSIVE Transcript(_, _)
Transcript(data, speaker) ==
    IF data = << >> THEN << >>
    ELSE LET last == data[Len(data)]
             front == Transcript(SubSeq(data, 1, Len(data) - 1), speaker)
         IN  IF last.speaker = speaker THEN front \o <<" ">> \o last.text
             ELSE front

\* Stored configurations (dictionary, phrase, settings, settings_item rows).
\* phrases[k] are the phrase texts of dictionary k.  categories are the
\* project's settings rows, each with the weights of its settings_item rows.
CfgGood ==
    [participant |-> (1 :> Employee @@ 2 :> Client),
     phrases     |-> (1 :> << <<"h", "i">>, <<"o", "k", " ", "n", "o", "w">> >>
                      @@ 2 :> << >>),
     categories  |-> << [kind |-> "script", weights |-> <<1>>] >>]
CfgBlankPhrase ==
    [participant |-> (1 :> Employee @@ 2 :> Client),
     phrases     |-> (1 :> << <<"h", "i">> >> @@ 2 :> << <<" ">> >>),
     categories  |-> << [kind |-> "script", weights |-> <<1>>] >>]
CfgEmptyCategory ==
    [participant |-> (1 :> Employee @@ 2 :> Client),
     phrases     |-> (1 :> << <<"h", "i">> >> @@ 2 :> << <<"f", "e", "e">> >>),
     categories  |-> << [kind |-> "script", weights |-> <<1>>],
                        [kind |-> "quality", weights |-> << >>] >>]
Configs == {CfgGood, CfgBlankPhrase, CfgEmptyCategory}

VARIABLES
    cfg,          \* the stored dictionaries, phrases and settings
    hashes,       \* call_metadata.file_hash values stored
    taskRows,     \* table task: id -> row
    metricsRows,  \* table task_call_metrics
    dictRows,     \* table task_to_dict
    statusLog,    \* history of the committed writes of task.status
    indexDocs,    \* committed and reloaded documents of the search index
    queue,        \* task_queue: payload -> number of messages waiting
    resp,         \* the ErrorKind (or "ok") of the API server's last response
    dispatcher,   \* run_pipe's loop: "running" or "stopped"
    nDelivered,   \* deliveries made so far
    pc,           \* per delivery: where its spawned handler stands
    msg,          \* per delivery: the message body
    ltask,        \* per delivery: the handler's local Task value
    recog,        \* per delivery: recognition data received
    todo,         \* per delivery: dictionary groups still to iterate
    t2d,          \* per delivery: task_to_dicts built so far
    txn,          \* per delivery: writes pending in its open transaction
    err,          \* per delivery: the stage whose error the handler carries
    recorded,     \* per delivery: outcome of the write recording the failure
    settled,      \* per delivery: ack/nack calls made
    trace,        \* per delivery: pipeline stages started, in order
    reads,        \* per delivery: search_phrase calls made per dictionary
    \* The indexer taken on its own, with the steps of one index call apart:
    writerLock,   \* the call holding the IndexWriter's mutex, or 0
    writerPending,\* documents added to the IndexWriter and not yet committed
    committedDocs,\* the committed documents, in commit order
    icall,        \* per indexer caller: its position, arguments and result
    \* calculate_settings_metrics taken on its own:
    settingsIn,   \* one settings category with the items it is scored on
    scoringOut,   \* what the calculation returned and wrote
    \* process_metrics taken on its own:
    audioIn,      \* the phrase timestamps and call holds of one recognition
    audioOut      \* the pause and interruption metrics computed from them

vars == <<cfg, hashes, taskRows, metricsRows, dictRows, statusLog, indexDocs,
          queue, resp, dispatcher, nDelivered, pc, msg, ltask, recog, todo,
          t2d, txn, err, recorded, settled, trace, reads, writerLock,
          writerPending, committedDocs, icall, settingsIn, scoringOut,
          audioIn, audioOut>>

dbVars == <<hashes, taskRows, metricsRows, dictRows, statusLog>>
apiVars == <<resp>>
indexerVars == <<writerLock, writerPending, committedDocs, icall>>
scoringVars == <<settingsIn, scoringOut>>
audioVars == <<audioIn, audioOut>>

\* Nothing created, published or delivered yet.
PipelineIdle ==
    /\ hashes = {}
    /\ taskRows = [t \in TaskIds |-> NoRow]
    /\ metricsRows = {}
    /\ dictRows = {}
    /\ statusLog = {}
    /\ indexDocs = {}
    /\ queue = [p \in Payloads |-> 0]
    /\ resp = "none"
    /\ dispatcher = "running"
    /\ nDelivered = 0
    /\ pc = [d \in Deliveries |-> "idle"]
    /\ msg = [d \in Deliveries |-> Malformed]
    /\ ltask = [d \in Deliveries |-> NoTask]
    /\ recog = [d \in Deliveries |-> NoRecog]
    /\ todo = [d \in Deliveries |-> {}]
    /\ t2d = [d \in Deliveries |-> {}]
    /\ txn = [d \in Deliveries |-> << >>]
    /\ err = [d \in Deliveries |-> "none"]
    /\ recorded = [d \in Deliveries |-> "none"]
    /\ settled = [d \in Deliveries |-> << >>]
    /\ trace = [d \in Deliveries |-> << >>]
    /\ reads = [d \in Deliveries |-> [k \in Dicts |-> 0]]

NoCall == [pc |-> "idle", id |-> 0, data |-> << >>, phrase |-> << >>,
           speaker |-> "none", found |-> "none"]
\* No index call under way, nothing in the IndexWriter.
IndexerIdle ==
    /\ writerLock = 0
    /\ writerPending = << >>
    /\ committedDocs = << >>
    /\ icall = [c \in Callers |-> NoCall]

NoCategory == [kind |-> "none", items |-> << >>, task_to_dicts |-> << >>,
               call_metrics |-> [call_holds_count |-> 0, script_score |-> 0,
                                 employee_quality_score |-> 0]]
NoScoring == [result |-> "none", item_match |-> << >>, scores |-> << >>,
              total_score |-> 0, script_score |-> 0,
              employee_quality_score |-> 0, calls |-> 0]
\* No calculation asked for.
ScoringIdle ==
    /\ settingsIn = NoCategory
    /\ scoringOut = NoScoring

NoAudio == [employee |-> << >>, client |-> << >>,
            holds |-> [music |-> << >>, silent |-> << >>]]
NoMetrics == [result |-> "none", silence_pause_count |-> 0,
              total_employee_silence |-> 0, pauses |-> {},
              client_interruptions_count |-> 0,
              total_client_interruptions_duration |-> 0]
\* No metrics asked for.
AudioIdle ==
    /\ audioIn = NoAudio
    /\ audioOut = NoMetrics

Init ==
    /\ cfg \in Configs
    /\ PipelineIdle
    /\ IndexerIdle
    /\ ScoringIdle
    /\ AudioIdle

\* ------------------------------------------------------------- API server
Exists(t) == taskRows[t] # NoRow
StoredIds == {t \in TaskIds : Exists(t)}
\* The id the database generates for an inserted task row.
NewId == Cardinality(StoredIds) + 1

\* Task::insert: a new row from call_metadata_id, status and project_id; id
\* is generated, failed_reason takes its default.
TaskInsert(status, meta) ==
    /\ NewId <= MaxTasks
    /\ taskRows' = [taskRows EXCEPT ![NewId] =
                       [status |-> status, failed_reason |-> "none", meta |-> meta]]

\* TaskPublisher::publish: the task id as the message body.
Publish(id) == queue' = [queue EXCEPT ![id] = @ + 1]

\* impl From<ErrorKind> for StatusCode
StatusCode(kind) ==
    CASE kind = "DbQueryFailed" -> 422
      [] kind = "EntityNotFound" -> 404
      [] kind = "TaskAlreadyProcessing" -> 400
      [] kind = "FileAlredyExists" -> 400
      [] kind = "InvalidSettingsRequest" -> 400
      [] OTHER -> 500

workerVars == <<indexDocs, dispatcher, nDelivered, pc, msg, ltask, recog, todo,
                t2d, txn, err, recorded, settled, trace, reads>>

\* handlers::task::do_create with a request whose metadata has file_hash h.
\* The metadata row, the task row and the message are three separate writes:
\* the `?` after Task::insert and the one after publish return an error and
\* leave what was written before them.
DoCreate(h) ==
    /\ h <= Cardinality(hashes) + 1
    /\ IF h \in hashes
       THEN /\ resp' = "FileAlredyExists"
            /\ UNCHANGED <<hashes, taskRows, queue>>
       ELSE /\ hashes' = hashes \cup {h}
            /\ \/ /\ TaskInsert(Processing, h)
                  /\ Publish(NewId)
                  /\ resp' = "created"
               \/ /\ resp' = "DbQueryFailed"
                  /\ UNCHANGED <<taskRows, queue>>
               \/ /\ TaskInsert(Processing, h)
                  /\ resp' = "AMQPError"
                  /\ UNCHANGED queue
    /\ UNCHANGED <<cfg, indexerVars, scoringVars, audioVars, metricsRows, dictRows, statusLog, workerVars>>

\* do_reprocess without its `status == Processing` rejection.
DoReprocessUnguarded(t) ==
    /\ IF ~Exists(t)
       THEN /\ resp' = "EntityNotFound"
            /\ UNCHANGED <<taskRows, queue>>
       ELSE \/ /\ TaskInsert(Processing, taskRows[t].meta)
               /\ Publish(NewId)
               /\ resp' = "ok"
            \/ /\ TaskInsert(Processing, taskRows[t].meta)
               /\ resp' = "AMQPError"
               /\ UNCHANGED queue
    /\ UNCHANGED <<cfg, indexerVars, scoringVars, audioVars, hashes, metricsRows, dictRows, statusLog, workerVars>>

\* handlers::task::do_reprocess for path parameter t.
DoReprocess(t) ==
    /\ IF ~Exists(t)
       THEN /\ resp' = "EntityNotFound"
            /\ UNCHANGED <<taskRows, queue>>
       ELSE IF taskRows[t].status = Processing
       THEN /\ resp' = "TaskAlreadyProcessing"
            /\ UNCHANGED <<taskRows, queue>>
       ELSE \/ /\ TaskInsert(Processing, taskRows[t].meta)
               /\ Publish(NewId)
               /\ resp' = "ok"
            \/ /\ TaskInsert(Processing, taskRows[t].meta)
               /\ resp' = "AMQPError"
               /\ UNCHANGED queue
    /\ UNCHANGED <<cfg, indexerVars, scoringVars, audioVars, hashes, metricsRows, dictRows, statusLog, workerVars>>

\* ------------------------------------------------------------------ broker
\* A body that is not a JSON uuid arrives in task_queue.
PublishMalformed ==
    /\ queue[Malformed] = 0
    /\ nDelivered < MaxDeliveries
    /\ queue' = [queue EXCEPT ![Malformed] = 1]
    /\ UNCHANGED <<cfg, indexerVars, scoringVars, audioVars, dbVars, apiVars, workerVars>>

\* ------------------------------------------------------------ search index
\* The indexed field a search of `speaker` reads (search_phrase's field choice):
\* the terms of the field, in position order.
Field(doc, speaker) == IF speaker = Client THEN doc.client ELSE doc.employee

\* PhraseQuery: the words as an adjacent, order-preserving run of the field.
IsAdjacentRun(words, text) ==
    \E i \in 0..(Len(text) - Len(words)) :
        \A j \in 1..Len(words) : text[i + j] = words[j]

\* TermQuery: the word occurs in the field.
HasTerm(word, text) == \E i \in 1..Len(text) : text[i] = word

\* TantivyIndexer::search_phrase on the reader's snapshot: "found", "absent",
\* or "panic" where words.first().expect("non empty vec") has no word.  The
\* words of the phrase are used as the query's terms as they are.
SearchPhrase(id, phrase, speaker) ==
    LET words == SplitWhitespace(phrase)
    IN  IF Len(words) > 1
        THEN IF \E doc \in indexDocs :
                    doc.uuid = id /\ IsAdjacentRun(words, Field(doc, speaker))
             THEN "found" ELSE "absent"
        ELSE IF Len(words) = 0 THEN "panic"
        ELSE IF \E doc \in indexDocs :
                    doc.uuid = id /\ HasTerm(words[1], Field(doc, speaker))
             THEN "found" ELSE "absent"

\* The phrase loop without its `break`: every phrase of the dictionary is
\* searched whether or not an earlier one was found.
PhraseLoopNoBreak(id, phrases, speaker, i) ==
    LET rs == {SearchPhrase(id, phrases[j], speaker) : j \in i..Len(phrases)}
    IN  [calls |-> Len(phrases),
         outcome |-> IF "panic" \in rs THEN "panic"
                     ELSE IF "found" \in rs THEN "found" ELSE "absent"]

\* The loop over one dictionary's phrases in keywords::process_metrics: the
\* number of search_phrase calls it makes from phrase i on, and how it ends.
RECURSIVE PhraseLoop(_, _, _, _)
PhraseLoop(id, phrases, speaker, i) ==
    IF i > Len(phrases)
    THEN [calls |-> Len(phrases), outcome |-> "absent"]
    ELSE LET r == SearchPhrase(id, phrases[i], speaker)
         IN  IF r = "absent"
             THEN PhraseLoop(id, phrases, speaker, i + 1)
             ELSE [calls |-> i, outcome |-> r]

\* --------------------------------------------------------------- the worker
\* The statement order of process / process_task / keywords::process_metrics.
StepOrder ==
    <<"process", "load_metadata", "transcribe", "index", "audio_metrics",
      "list_dicts", "match", "score", "begin_txn", "insert_metrics",
      "insert_dicts", "update_task", "commit", "ack">>

\* The statement order with the audio metrics computed before the index write.
StepOrderMetricsFirst ==
    <<"process", "load_metadata", "transcribe", "audio_metrics", "index",
      "list_dicts", "match", "score", "begin_txn", "insert_metrics",
      "insert_dicts", "update_task", "commit", "ack">>

AfterMetricsFirst(s) ==
    LET i == CHOOSE n \in 1..Len(StepOrderMetricsFirst) : StepOrderMetricsFirst[n] = s
    IN  StepOrderMetricsFirst[i + 1]

\* The step that follows step s when s succeeds.
After(s) ==
    LET i == CHOOSE n \in 1..Len(StepOrder) : StepOrder[n] = s
    IN  StepOrder[i + 1]

Running(d) == dispatcher = "running" /\ d \in 1..nDelivered

\* The pipeline stage a step belongs to; an error is identified by the stage
\* it comes from.
StageOf(s) ==
    CASE s \in {"list_dicts", "match"} -> "match"
      [] s \in {"begin_txn", "insert_metrics", "insert_dicts", "update_task"}
            -> "persist"
      [] OTHER -> s

\* A step whose error is noted but does not end process_task.
FailAndContinue(d, s) ==
    /\ pc' = [pc EXCEPT ![d] = After(s)]
    /\ err' = [err EXCEPT ![d] = StageOf(s)]
    /\ UNCHANGED <<txn, recog, todo, t2d>>

\* A `?` that returns the error of step s out of process_task: the open
\* transaction, if any, is dropped with the function's other locals.
Fail(d, s) ==
    /\ pc' = [pc EXCEPT ![d] = "failed"]
    /\ err' = [err EXCEPT ![d] = StageOf(s)]
    /\ txn' = [txn EXCEPT ![d] = << >>]
    /\ recog' = [recog EXCEPT ![d] = NoRecog]
    /\ todo' = [todo EXCEPT ![d] = {}]
    /\ t2d' = [t2d EXCEPT ![d] = {}]

Started(d, stage) == trace' = [trace EXCEPT ![d] = Append(@, stage)]

\* run_pipe: the next delivery of the consumer stream is handed to a newly
\* spawned handler.
Deliver ==
    /\ dispatcher = "running"
    /\ nDelivered < MaxDeliveries
    /\ \E p \in Payloads :
         /\ queue[p] > 0
         /\ queue' = [queue EXCEPT ![p] = @ - 1]
         /\ msg' = [msg EXCEPT ![nDelivered + 1] = p]
    /\ nDelivered' = nDelivered + 1
    /\ pc' = [pc EXCEPT ![nDelivered + 1] = "process"]
    /\ UNCHANGED <<cfg, indexerVars, scoringVars, audioVars, dbVars, apiVars, indexDocs, dispatcher, ltask, recog,
                   todo, t2d, txn, err, recorded, settled, trace, reads>>

\* run_pipe: the consumer stream yields an error and the loop bails out; the
\* process ends and takes the unfinished handlers, with their locals, with it.
ConsumeError ==
    LET killed == {d \in Deliveries : pc[d] \notin {"idle", "done", "panicked"}}
        keep(f, init) == [d \in Deliveries |-> IF d \in killed THEN init ELSE f[d]]
    IN  /\ dispatcher = "running"
        /\ dispatcher' = "stopped"
        /\ pc' = keep(pc, "killed")
        /\ ltask' = keep(ltask, NoTask)
        /\ recog' = keep(recog, NoRecog)
        /\ todo' = keep(todo, {})
        /\ t2d' = keep(t2d, {})
        /\ txn' = keep(txn, << >>)
        /\ err' = keep(err, "none")
        /\ recorded' = keep(recorded, "none")
        /\ trace' = keep(trace, << >>)
        /\ reads' = keep(reads, [k \in Dicts |-> 0])
        /\ UNCHANGED <<cfg, indexerVars, scoringVars, audioVars, dbVars, apiVars, queue, indexDocs, nDelivered, msg,
                       settled>>

\* process: decode the body, load the task.
Process(d) ==
    /\ Running(d)
    /\ pc[d] = "process"
    /\ \/ /\ msg[d] = Malformed
          /\ err' = [err EXCEPT ![d] = "decode"]
          /\ pc' = [pc EXCEPT ![d] = "nack"]
          /\ UNCHANGED ltask
       \/ /\ msg[d] # Malformed
          /\ \E ok \in BOOLEAN :
               IF ok /\ Exists(msg[d])
               THEN /\ ltask' = [ltask EXCEPT ![d] =
                                   [id |-> msg[d],
                                    status |-> taskRows[msg[d]].status,
                                    failed_reason |-> taskRows[msg[d]].failed_reason]]
                    /\ pc' = [pc EXCEPT ![d] = After("process")]
                    /\ UNCHANGED err
               ELSE /\ err' = [err EXCEPT ![d] = "load_task"]
                    /\ pc' = [pc EXCEPT ![d] = "nack"]
                    /\ UNCHANGED ltask
    /\ UNCHANGED <<cfg, indexerVars, scoringVars, audioVars, dbVars, apiVars, queue, indexDocs, dispatcher, nDelivered,
                   msg, recog, todo, t2d, txn, recorded, settled, trace, reads>>

\* process_task: CallMetadata::get_by_task_id.
LoadMetadata(d) ==
    /\ Running(d)
    /\ pc[d] = "load_metadata"
    /\ \E ok \in BOOLEAN :
         IF ok
         THEN /\ pc' = [pc EXCEPT ![d] = After("load_metadata")]
              /\ UNCHANGED <<err, txn, recog, todo, t2d>>
         ELSE Fail(d, "load_metadata")
    /\ UNCHANGED <<cfg, indexerVars, scoringVars, audioVars, dbVars, apiVars, queue, indexDocs, dispatcher, nDelivered,
                   msg, ltask, recorded, settled, trace, reads>>

\* process_task: the transcription call.
Transcribe(d) ==
    /\ Running(d)
    /\ pc[d] = "transcribe"
    /\ Started(d, "transcribe")
    /\ \/ /\ \E data \in RecogChoices : recog' = [recog EXCEPT ![d] = data]
          /\ pc' = [pc EXCEPT ![d] = After("transcribe")]
          /\ UNCHANGED <<err, txn, todo, t2d>>
       \/ Fail(d, "transcribe")
    /\ UNCHANGED <<cfg, indexerVars, scoringVars, audioVars, dbVars, apiVars, queue, indexDocs, dispatcher, nDelivered,
                   msg, ltask, recorded, settled, reads>>

\* process_task: Indexer::index_speech_recog (add_document, commit, reload
\* under the writer's mutex).
IndexWrite(d) ==
    /\ Running(d)
    /\ pc[d] = "index"
    /\ Started(d, "index")
    /\ \/ /\ indexDocs' = indexDocs \cup
                 {[uuid |-> ltask[d].id,
                   employee |-> CustomTokenizer(Transcript(recog[d], Employee)),
                   client |-> CustomTokenizer(Transcript(recog[d], Client)),
                   payload |-> recog[d], by |-> d]}
          /\ pc' = [pc EXCEPT ![d] = After("index")]
          /\ UNCHANGED <<err, txn, recog, todo, t2d>>
       \/ /\ Fail(d, "index")
          /\ UNCHANGED indexDocs
    /\ UNCHANGED <<cfg, indexerVars, scoringVars, audioVars, dbVars, apiVars, queue, dispatcher, nDelivered,
                   msg, ltask, recorded, settled, reads>>

\* process_task: domain::audio_metrics::process_metrics, a pure function.
AudioMetrics(d) ==
    /\ Running(d)
    /\ pc[d] = "audio_metrics"
    /\ Started(d, "metrics")
    /\ pc' = [pc EXCEPT ![d] = After("audio_metrics")]
    /\ UNCHANGED <<cfg, indexerVars, scoringVars, audioVars, dbVars, apiVars, queue, indexDocs, dispatcher, nDelivered,
                   msg, ltask, recog, todo, t2d, txn, err, recorded, settled, reads>>

\* keywords::process_metrics: Phrase::list_all, Dictionary::list and the
\* grouping of the phrases by dictionary (a dictionary without phrases has no
\* group).
ListDicts(d) ==
    /\ Running(d)
    /\ pc[d] = "list_dicts"
    /\ Started(d, "match")
    /\ \E ok \in BOOLEAN :
         IF ok
         THEN LET grouped == {k \in Dicts : Len(cfg.phrases[k]) > 0}
              IN  /\ todo' = [todo EXCEPT ![d] = grouped]
                  /\ pc' = [pc EXCEPT ![d] =
                              IF grouped = {} THEN After("match")
                              ELSE After("list_dicts")]
                  /\ UNCHANGED <<err, txn, recog, t2d>>
         ELSE Fail(d, "list_dicts")
    /\ UNCHANGED <<cfg, indexerVars, scoringVars, audioVars, dbVars, apiVars, queue, indexDocs, dispatcher, nDelivered,
                   msg, ltask, recorded, settled, reads>>

\* An entry whose `contains` stays at its initial false.
TaskToDictNeverSet(k, outcome) == [dictionary_id |-> k, contains |-> FALSE]

\* keywords::process_metrics: the TaskToDict pushed for dictionary k, with the
\* value `contains` has when the phrase loop ends.
TaskToDictFor(k, outcome) == [dictionary_id |-> k, contains |-> (outcome = "found")]

\* keywords::process_metrics: one iteration of `for (dictionary_id, phrases)
\* in grouped` (the map's order is arbitrary): the phrases are searched in
\* order until one is found.  A search_phrase call may return an index error;
\* one given a phrase without words panics, which ends the spawned handler.
MatchDict(d, k) ==
    /\ Running(d)
    /\ pc[d] = "match"
    /\ k \in todo[d]
    /\ LET r == PhraseLoop(ltask[d].id, cfg.phrases[k], cfg.participant[k], 1)
           completed == IF r.outcome = "panic" THEN r.calls - 1 ELSE r.calls
       IN  \/ /\ r.outcome = "panic"
              /\ reads' = [reads EXCEPT ![d][k] = r.calls]
              /\ pc' = [pc EXCEPT ![d] = "panicked"]
              /\ UNCHANGED <<todo, t2d, err, txn, recog>>
           \/ /\ r.outcome # "panic"
              /\ reads' = [reads EXCEPT ![d][k] = r.calls]
              /\ t2d' = [t2d EXCEPT ![d] = @ \cup {TaskToDictFor(k, r.outcome)}]
              /\ todo' = [todo EXCEPT ![d] = @ \ {k}]
              /\ pc' = [pc EXCEPT ![d] =
                          IF todo[d] = {k} THEN After("match") ELSE "match"]
              /\ UNCHANGED <<err, txn, recog>>
           \/ /\ \E j \in 1..completed :
                    reads' = [reads EXCEPT ![d][k] = j]
              /\ Fail(d, "match")
    /\ UNCHANGED <<cfg, indexerVars, scoringVars, audioVars, dbVars, apiVars, queue, indexDocs, dispatcher, nDelivered,
                   msg, ltask, recorded, settled, trace>>

\* calculate_settings_metrics returns an error when a settings category has
\* no settings_item row (its id is no key of the grouped items).
CalcSettingsFails(categories) ==
    \E i \in 1..Len(categories) : Len(categories[i].weights) = 0

\* keywords::process_metrics: the three settings reads and the scoring.
Score(d) ==
    /\ Running(d)
    /\ pc[d] = "score"
    /\ Started(d, "score")
    /\ \E ok \in BOOLEAN :
         IF ok /\ ~CalcSettingsFails(cfg.categories)
         THEN /\ pc' = [pc EXCEPT ![d] = After("score")]
              /\ UNCHANGED <<err, txn, recog, todo, t2d>>
         ELSE Fail(d, "score")
    /\ UNCHANGED <<cfg, indexerVars, scoringVars, audioVars, dbVars, apiVars, queue, indexDocs, dispatcher, nDelivered,
                   msg, ltask, recorded, settled, reads>>

\* ----------------------------------------------------- the outcome's writes
tables == <<taskRows, metricsRows, dictRows, statusLog>>

\* Task::update with the failed_reason column left out of the statement.
StatusWriteNoReason(d, status, reason) ==
    [op |-> "status", task |-> ltask[d].id, rows |-> {}, status |-> status,
     reason |-> "none"]

\* Task::update: status and failed_reason of the row with the task's id.
StatusWrite(d, status, reason) ==
    [op |-> "status", task |-> ltask[d].id, rows |-> {}, status |-> status,
     reason |-> reason]

\* The tables after the writes ws of delivery d have taken effect.
Persist(d, ws) ==
    LET at(op) == {i \in 1..Len(ws) : ws[i].op = op}
    IN  /\ metricsRows' = metricsRows \cup
                {[task_id |-> ws[i].task, by |-> d] : i \in at("metrics")}
        /\ dictRows' = dictRows \cup
                UNION {{[task_id |-> ws[i].task, dictionary_id |-> x.dictionary_id,
                         contains |-> x.contains, by |-> d] : x \in ws[i].rows}
                       : i \in at("dicts")}
        /\ IF at("status") = {}
           THEN UNCHANGED <<taskRows, statusLog>>
           ELSE LET w == ws[CHOOSE i \in at("status") : \A j \in at("status") : j <= i]
                IN  /\ taskRows' = [taskRows EXCEPT
                                      ![w.task].status = w.status,
                                      ![w.task].failed_reason = w.reason]
                    /\ statusLog' = statusLog \cup
                            {[task |-> w.task, status |-> w.status,
                              reason |-> w.reason, by |-> d]}

\* A statement executed on a pooled connection outside a transaction takes
\* effect at once.
AutoCommitWrite(d, w) ==
    /\ Persist(d, <<w>>)
    /\ UNCHANGED txn

\* A statement executed on `&mut txn`: pending until the commit.
TxnWrite(d, w) ==
    /\ txn' = [txn EXCEPT ![d] = Append(@, w)]
    /\ UNCHANGED tables

\* process_task: acquire a connection and begin the transaction, then set the
\* local task to Ready.
BeginTxn(d) ==
    /\ Running(d)
    /\ pc[d] = "begin_txn"
    /\ Started(d, "persist")
    /\ \E ok \in BOOLEAN :
         IF ok
         THEN /\ ltask' = [ltask EXCEPT ![d].status = Ready,
                                        ![d].failed_reason = "none"]
              /\ pc' = [pc EXCEPT ![d] = After("begin_txn")]
              /\ UNCHANGED <<err, txn, recog, todo, t2d>>
         ELSE /\ Fail(d, "begin_txn")
              /\ UNCHANGED ltask
    /\ UNCHANGED <<cfg, indexerVars, scoringVars, audioVars, dbVars, apiVars, queue, indexDocs, dispatcher, nDelivered,
                   msg, recorded, settled, reads>>

\* A statement of the transaction: executed, or failing out of process_task.
TxnStep(d, step, w) ==
    /\ Running(d)
    /\ pc[d] = step
    /\ \/ /\ TxnWrite(d, w)
          /\ pc' = [pc EXCEPT ![d] = After(step)]
          /\ UNCHANGED <<err, recog, todo, t2d>>
       \/ /\ Fail(d, step)
          /\ UNCHANGED tables
    /\ UNCHANGED <<cfg, indexerVars, scoringVars, audioVars, hashes, apiVars, queue, indexDocs, dispatcher, nDelivered,
                   msg, ltask, recorded, settled, trace, reads>>

\* process_task: CallMetrics::insert(metrics, &mut txn).
InsertMetrics(d) ==
    TxnStep(d, "insert_metrics",
            [op |-> "metrics", task |-> ltask[d].id, rows |-> {},
             status |-> "none", reason |-> "none"])

\* process_task: TaskToDict::bulk_insert(task_to_dicts, &mut txn).
InsertDicts(d) ==
    TxnStep(d, "insert_dicts",
            [op |-> "dicts", task |-> ltask[d].id, rows |-> t2d[d],
             status |-> "none", reason |-> "none"])

\* process_task: Task::update(task, &mut txn).
UpdateTask(d) ==
    TxnStep(d, "update_task",
            StatusWrite(d, ltask[d].status, ltask[d].failed_reason))

\* process_task: txn.commit(), after which process_task returns Ok and its
\* locals are dropped.
Commit(d) ==
    /\ Running(d)
    /\ pc[d] = "commit"
    /\ \/ /\ Persist(d, txn[d])
          /\ txn' = [txn EXCEPT ![d] = << >>]
          /\ recog' = [recog EXCEPT ![d] = NoRecog]
          /\ t2d' = [t2d EXCEPT ![d] = {}]
          /\ pc' = [pc EXCEPT ![d] = After("commit")]
          /\ UNCHANGED <<err, todo>>
       \/ /\ Fail(d, "commit")
          /\ UNCHANGED tables
    /\ UNCHANGED <<cfg, indexerVars, scoringVars, audioVars, hashes, apiVars, queue, indexDocs, dispatcher, nDelivered,
                   msg, ltask, recorded, settled, trace, reads>>

\* process: the Err arm of `match process_task(..)`: the local task becomes
\* Failed with the error's text and is written with Task::update on a fresh
\* connection; either way process returns an error.
RecordFailure(d) ==
    /\ Running(d)
    /\ pc[d] = "failed"
    /\ ltask' = [ltask EXCEPT ![d].status = Failed, ![d].failed_reason = err[d]]
    /\ \E ok \in BOOLEAN :
         IF ok
         THEN /\ AutoCommitWrite(d, StatusWrite(d, Failed, err[d]))
              /\ recorded' = [recorded EXCEPT ![d] = "ok"]
         ELSE /\ recorded' = [recorded EXCEPT ![d] = "failed"]
              /\ UNCHANGED <<tables, txn>>
    /\ pc' = [pc EXCEPT ![d] = "nack"]
    /\ UNCHANGED <<cfg, indexerVars, scoringVars, audioVars, hashes, apiVars, queue, indexDocs, dispatcher, nDelivered,
                   msg, recog, todo, t2d, err, settled, trace, reads>>

\* A settlement whose nack arm also ends the dispatcher's loop.
SettleStopsDispatcher(d) ==
    /\ Running(d)
    /\ pc[d] \in {"ack", "nack"}
    /\ \E ok \in BOOLEAN :
         /\ settled' = [settled EXCEPT ![d] =
                          Append(@, [kind |-> pc[d], requeue |-> FALSE, sent |-> ok])]
         /\ queue' = IF ok THEN queue ELSE [queue EXCEPT ![msg[d]] = @ + 1]
    /\ pc' = [pc EXCEPT ![d] = "done"]
    /\ ltask' = [ltask EXCEPT ![d] = NoTask]
    /\ err' = [err EXCEPT ![d] = "none"]
    /\ recorded' = [recorded EXCEPT ![d] = "none"]
    /\ trace' = [trace EXCEPT ![d] = << >>]
    /\ reads' = [reads EXCEPT ![d] = [k \in Dicts |-> 0]]
    /\ dispatcher' = IF pc[d] = "nack" THEN "stopped" ELSE dispatcher
    /\ UNCHANGED <<cfg, indexerVars, scoringVars, audioVars, dbVars, apiVars, indexDocs, nDelivered, msg, recog, todo,
                   t2d, txn>>

\* run_pipe: delivery.ack on Ok, delivery.nack (requeue = false) on Err.  When
\* the call itself fails the broker never learns of the settlement and hands
\* the message out again.  The spawned future ends here and its locals go.
Settle(d) ==
    /\ Running(d)
    /\ pc[d] \in {"ack", "nack"}
    /\ \E ok \in BOOLEAN :
         /\ settled' = [settled EXCEPT ![d] =
                          Append(@, [kind |-> pc[d], requeue |-> FALSE, sent |-> ok])]
         /\ queue' = IF ok THEN queue ELSE [queue EXCEPT ![msg[d]] = @ + 1]
    /\ pc' = [pc EXCEPT ![d] = "done"]
    /\ ltask' = [ltask EXCEPT ![d] = NoTask]
    /\ err' = [err EXCEPT ![d] = "none"]
    /\ recorded' = [recorded EXCEPT ![d] = "none"]
    /\ trace' = [trace EXCEPT ![d] = << >>]
    /\ reads' = [reads EXCEPT ![d] = [k \in Dicts |-> 0]]
    /\ UNCHANGED dispatcher
    /\ UNCHANGED <<cfg, indexerVars, scoringVars, audioVars, dbVars, apiVars, indexDocs, nDelivered, msg, recog, todo,
                   t2d, txn>>

Next ==
    \/ \E h \in Hashes : DoCreate(h)
    \/ \E t \in TaskIds : DoReprocess(t)
    \/ PublishMalformed
    \/ Deliver
    \/ ConsumeError
    \/ \E d \in Deliveries : Process(d)
    \/ \E d \in Deliveries : LoadMetadata(d)
    \/ \E d \in Deliveries : Transcribe(d)
    \/ \E d \in Deliveries : IndexWrite(d)
    \/ \E d \in Deliveries : AudioMetrics(d)
    \/ \E d \in Deliveries : ListDicts(d)
    \/ \E d \in Deliveries : \E k \in Dicts : MatchDict(d, k)
    \/ \E d \in Deliveries : Score(d)
    \/ \E d \in Deliveries : BeginTxn(d)
    \/ \E d \in Deliveries : InsertMetrics(d)
    \/ \E d \in Deliveries : InsertDicts(d)
    \/ \E d \in Deliveries : UpdateTask(d)
    \/ \E d \in Deliveries : Commit(d)
    \/ \E d \in Deliveries : RecordFailure(d)
    \/ \E d \in Deliveries : Settle(d)

Spec == Init /\ [][Next]_vars

\* ================================================ the indexer on its own
\* Concurrent callers of TantivyIndexer, each making one index_speech_recog
\* call whose steps (lock, add_document, commit, reload) interleave with the
\* other callers', followed by one search_phrase call for the id it indexed.

\* Recognition data handed to index_speech_recog.
IndexerData ==
    RecogChoices \cup
    { << [speaker |-> Employee, text |-> <<"H", "i", ",", " ", "a", "l", "l">>],
         [speaker |-> Client,   text |-> <<"f", "e", "e">>] >> }

\* The terms add_document puts in the two transcript fields of a document:
\* each speaker's folded transcript run through custom_tokenizer.
AnalyzedFields ==
    [data \in IndexerData |->
        [employee |-> CustomTokenizer(Transcript(data, Employee)),
         client |-> CustomTokenizer(Transcript(data, Client))]]

\* Phrase texts handed to search_phrase.
QueryPhrases == { <<"h", "i">>, <<"H", "i", ",">>, <<"h", "i", " ", "a", "l", "l">>, <<"o", "k", " ", "n", "o", "w">> }

IndexerInit ==
    /\ cfg = CfgGood
    /\ PipelineIdle
    /\ IndexerIdle
    /\ ScoringIdle
    /\ AudioIdle

pipelineVars == <<cfg, dbVars, apiVars, queue, dispatcher, nDelivered, pc, msg,
                  ltask, recog, todo, t2d, txn, err, recorded, settled, trace,
                  reads>>

Range(seq) == {seq[i] : i \in 1..Len(seq)}

\* The caller's position moves to p; the guard drops with the closure when
\* the call leaves the blocking section.
CallAt(c, p) == icall' = [icall EXCEPT ![c].pc = p]

\* A caller starts index_speech_recog(id, data): the transcripts are folded
\* and the caller waits for the writer's mutex.
IndexCall(c, id, data) ==
    /\ icall[c].pc = "idle"
    /\ icall' = [icall EXCEPT ![c].pc = "lock", ![c].id = id, ![c].data = data]
    /\ UNCHANGED <<pipelineVars, scoringVars, audioVars, indexDocs, writerLock,
                   writerPending, committedDocs>>

\* lock_owned() returning at once whether or not the mutex is held.
IndexLockNoWait(c) ==
    /\ icall[c].pc = "lock"
    /\ writerLock' = c
    /\ CallAt(c, "add")
    /\ UNCHANGED <<pipelineVars, scoringVars, audioVars, indexDocs, writerPending,
                   committedDocs>>

\* self.writer.clone().lock_owned().await
IndexLock(c) ==
    /\ icall[c].pc = "lock"
    /\ writerLock = 0
    /\ writerLock' = c
    /\ CallAt(c, "add")
    /\ UNCHANGED <<pipelineVars, scoringVars, audioVars, indexDocs, writerPending,
                   committedDocs>>

\* spawn_blocking: index_writer.add_document(..)?
IndexAdd(c) ==
    /\ icall[c].pc = "add"
    /\ \/ /\ writerPending' = Append(writerPending,
                 [uuid |-> icall[c].id,
                  employee |-> AnalyzedFields[icall[c].data].employee,
                  client |-> AnalyzedFields[icall[c].data].client,
                  payload |-> icall[c].data, by |-> c])
          /\ CallAt(c, "commit")
          /\ UNCHANGED writerLock
       \/ /\ CallAt(c, "index_failed")
          /\ writerLock' = 0
          /\ UNCHANGED writerPending
    /\ UNCHANGED <<pipelineVars, scoringVars, audioVars, indexDocs, committedDocs>>

\* spawn_blocking: index_writer.commit()?  A failed commit leaves the added
\* documents in the writer.
IndexCommit(c) ==
    /\ icall[c].pc = "commit"
    /\ \/ /\ committedDocs' = committedDocs \o writerPending
          /\ writerPending' = << >>
          /\ CallAt(c, "reload")
          /\ UNCHANGED writerLock
       \/ /\ CallAt(c, "index_failed")
          /\ writerLock' = 0
          /\ UNCHANGED <<writerPending, committedDocs>>
    /\ UNCHANGED <<pipelineVars, scoringVars, audioVars, indexDocs>>

\* The end of the blocking section with the reload left out.
IndexReloadSkipped(c) ==
    /\ icall[c].pc = "reload"
    /\ CallAt(c, "indexed")
    /\ writerLock' = 0
    /\ UNCHANGED <<pipelineVars, scoringVars, audioVars, indexDocs, writerPending,
                   committedDocs>>

\* spawn_blocking: reader.reload(), the closure's last statement: the guard
\* is dropped and index_speech_recog returns.
IndexReload(c) ==
    /\ icall[c].pc = "reload"
    /\ \/ /\ indexDocs' = Range(committedDocs)
          /\ CallAt(c, "indexed")
       \/ /\ CallAt(c, "index_failed")
          /\ UNCHANGED indexDocs
    /\ writerLock' = 0
    /\ UNCHANGED <<pipelineVars, scoringVars, audioVars, writerPending, committedDocs>>

\* search_phrase(id, phrase, speaker) for the id the caller indexed; it takes
\* no lock.
IndexerSearch(c, phrase, speaker) ==
    /\ icall[c].pc = "indexed"
    /\ icall' = [icall EXCEPT ![c].pc = "searched",
                              ![c].phrase = phrase,
                              ![c].speaker = speaker,
                              ![c].found = SearchPhrase(icall[c].id, phrase, speaker)]
    /\ UNCHANGED <<pipelineVars, scoringVars, audioVars, indexDocs, writerLock,
                   writerPending, committedDocs>>

IndexerNext ==
    \/ \E c \in Callers : \E id \in TaskIds : \E data \in IndexerData :
          IndexCall(c, id, data)
    \/ \E c \in Callers : IndexLock(c)
    \/ \E c \in Callers : IndexAdd(c)
    \/ \E c \in Callers : IndexCommit(c)
    \/ \E c \in Callers : IndexReload(c)
    \/ \E c \in Callers : \E phrase \in QueryPhrases : \E speaker \in {Employee, Client} :
          IndexerSearch(c, phrase, speaker)

\* A step of an index call that is waiting for a free mutex or is inside the
\* blocking closure.
IndexWriteStep ==
    \E c \in Callers :
       IndexLock(c) \/ IndexAdd(c) \/ IndexCommit(c) \/ IndexReload(c)

\* The runtime keeps running what can run: a free mutex is handed to a
\* waiting caller and a started blocking closure runs to its end.
IndexerFairness == WF_vars(IndexWriteStep)

IndexerSpec == IndexerInit /\ [][IndexerNext]_vars /\ IndexerFairness

\* ========================================= the scoring engine on its own
\* calculate_settings_metrics applied to one category (a Script or Quality
\* Settings row with its items and their dictionary bindings), the task's
\* TaskToDict results and its CallMetrics.

MaxItems == 2
MaxWeight == 2
MaxBindings == 2
MaxCalls == 2
MantissaBits == 24

\* score_weight values: small weights and one whose f32 product with the
\* normalized point falls short of the exact quotient; none negative.
Weights == (0..MaxWeight) \cup {97}

Script == "script"
Quality == "quality"

\* SettingsDictItem rows of one item: (dictionary_id, contains).
BindingChoices ==
    {b \in SUBSET [dictionary_id : Dicts, contains : BOOLEAN] :
        Cardinality(b) <= MaxBindings}

\* SettingsItem rows: a CallHolds item, or a Dictionary item with bindings.
ItemChoices ==
    [score_weight : Weights, type : {"call_holds"}, dicts : {{}}]
    \cup [score_weight : Weights, type : {"dictionary"}, dicts : BindingChoices]

\* The items grouped under one settings id, in the order of the query.
ItemLists == UNION {[1..n -> ItemChoices] : n \in 0..MaxItems}

\* The task's TaskToDict rows collected by dictionary id.
TaskToDictChoices == UNION {[D -> BOOLEAN] : D \in SUBSET Dicts}

\* The CallMetrics handed in: as computed from the audio, or as read back
\* with scores already stored.
CallMetricsChoices ==
    { [call_holds_count |-> 0, script_score |-> 0, employee_quality_score |-> 0],
      [call_holds_count |-> 1, script_score |-> 0, employee_quality_score |-> 0],
      [call_holds_count |-> 0, script_score |-> 50, employee_quality_score |-> 50] }

ScoringInit ==
    /\ cfg = CfgGood
    /\ PipelineIdle
    /\ IndexerIdle
    /\ settingsIn \in [kind : {Script, Quality}, items : ItemLists,
                       task_to_dicts : TaskToDictChoices,
                       call_metrics : CallMetricsChoices]
    /\ scoringOut = NoScoring
    /\ AudioIdle

\* Binary long division: q + r/d carried on until q has a full f32 mantissa;
\* k counts the binary places after the point.
RECURSIVE Normalize(_, _, _, _)
Normalize(q, r, d, k) ==
    IF q >= 2^(MantissaBits - 1) THEN [q |-> q, r |-> r, k |-> k]
    ELSE IF 2 * r >= d THEN Normalize(2 * q + 1, 2 * r - d, d, k + 1)
    ELSE Normalize(2 * q, 2 * r, d, k + 1)

\* IEEE round-to-nearest, ties to even: q with a remainder of r2/(2d).
HalfEven(q, r2, d) ==
    IF r2 > d \/ (r2 = d /\ q % 2 = 1) THEN q + 1 ELSE q

RECURSIVE Bits(_)
Bits(p) == IF p = 0 THEN 0 ELSE 1 + Bits(p \div 2)

\* 100f32 / sum_goal_scores_weights as f32 for a positive sum: the f32
\* nearest to the quotient, as the mantissa m of the value m / 2^k.
ScorePointNormalized(sum) ==
    LET n == Normalize(100 \div sum, 100 % sum, sum, 0)
    IN  [m |-> HalfEven(n.q, 2 * n.r, sum), k |-> n.k]

\* (score_weight as f32 * score_point_normalized) as i32: the product
\* rounded to f32, then truncated.
ScoreAsI32(weight, spn) ==
    LET p == weight * spn.m
        r == IF Bits(p) > MantissaBits THEN Bits(p) - MantissaBits ELSE 0
        m == HalfEven(p \div 2^r, 2 * (p % 2^r), 2^r)
    IN  IF r >= spn.k THEN m * 2^(r - spn.k) ELSE m \div 2^(spn.k - r)

\* The score of one item.  With a zero sum the normalized point is
\* 100.0 / 0.0 = inf; the weights being non-negative, every weight is then
\* 0, and 0.0 * inf = NaN, which `as i32` turns into 0.
ItemScore(weight, sum, item_match) ==
    IF ~item_match THEN 0
    ELSE IF sum = 0 THEN 0
    ELSE ScoreAsI32(weight, ScorePointNormalized(sum))

\* The binding agrees with the task's observed containment; `default` where
\* the task has no row for the dictionary.
Agrees(b, task_to_dicts, default) ==
    IF b.dictionary_id \in DOMAIN task_to_dicts
    THEN task_to_dicts[b.dictionary_id] = b.contains
    ELSE default

\* A dictionary item matched with one default for both rules: a dictionary
\* without a TaskToDict row never agrees.
ItemMatchAllDefaultFalse(item, in) ==
    IF item.type = "call_holds" THEN in.call_metrics.call_holds_count = 0
    ELSE LET all_match == \E b \in item.dicts : ~b.contains
         IN  IF all_match
             THEN \A b \in item.dicts : Agrees(b, in.task_to_dicts, FALSE)
             ELSE \E b \in item.dicts : Agrees(b, in.task_to_dicts, FALSE)

\* A dictionary item matched with one default for both rules: a dictionary
\* without a TaskToDict row always agrees.
ItemMatchAnyDefaultTrue(item, in) ==
    IF item.type = "call_holds" THEN in.call_metrics.call_holds_count = 0
    ELSE LET all_match == \E b \in item.dicts : ~b.contains
         IN  IF all_match
             THEN \A b \in item.dicts : Agrees(b, in.task_to_dicts, TRUE)
             ELSE \E b \in item.dicts : Agrees(b, in.task_to_dicts, TRUE)

\* item_match of one settings item.
ItemMatch(item, in) ==
    IF item.type = "call_holds" THEN in.call_metrics.call_holds_count = 0
    ELSE LET all_match == \E b \in item.dicts : ~b.contains
         IN  IF all_match
             THEN \A b \in item.dicts : Agrees(b, in.task_to_dicts, TRUE)
             ELSE \E b \in item.dicts : Agrees(b, in.task_to_dicts, FALSE)

RECURSIVE SumSeq(_)
SumSeq(seq) == IF seq = << >> THEN 0 ELSE Head(seq) + SumSeq(Tail(seq))

\* The call's total assigned to the category's score field whatever the
\* field holds.
WriteScoreAlways(current, total_score) == total_score

\* match settings.type: the total is assigned to the category's score field
\* only while the field is 0.
WriteScore(current, total_score) ==
    IF current = 0 THEN total_score ELSE current

\* calculate_settings_metrics for the category `in`: an error when the
\* category has no items, else the items' scores, their total and the
\* CallMetrics score fields.
CalculateSettingsMetrics(in) ==
    IF Len(in.items) = 0
    THEN [result |-> "err", item_match |-> << >>, scores |-> << >>,
          total_score |-> 0,
          script_score |-> in.call_metrics.script_score,
          employee_quality_score |-> in.call_metrics.employee_quality_score]
    ELSE LET sum_goal_scores_weights ==
                 SumSeq([i \in 1..Len(in.items) |-> in.items[i].score_weight])
             item_match == [i \in 1..Len(in.items) |-> ItemMatch(in.items[i], in)]
             scores == [i \in 1..Len(in.items) |->
                          ItemScore(in.items[i].score_weight,
                                    sum_goal_scores_weights, item_match[i])]
             total_score == SumSeq(scores)
         IN  [result |-> "ok", item_match |-> item_match, scores |-> scores,
              total_score |-> total_score,
              script_score |->
                 IF in.kind = Script
                 THEN WriteScore(in.call_metrics.script_score, total_score)
                 ELSE in.call_metrics.script_score,
              employee_quality_score |->
                 IF in.kind = Quality
                 THEN WriteScore(in.call_metrics.employee_quality_score, total_score)
                 ELSE in.call_metrics.employee_quality_score]

\* The outcome of a call, numbered.
Outcome(in) ==
    LET out == CalculateSettingsMetrics(in)
    IN  [result |-> out.result, item_match |-> out.item_match,
         scores |-> out.scores, total_score |-> out.total_score,
         script_score |-> out.script_score,
         employee_quality_score |-> out.employee_quality_score,
         calls |-> scoringOut.calls + 1]

\* The first call of calculate_settings_metrics, on the arguments drawn.
Calculate ==
    /\ scoringOut.calls = 0
    /\ scoringOut' = Outcome(settingsIn)
    /\ UNCHANGED <<pipelineVars, indexerVars, audioVars, indexDocs, settingsIn>>

\* A later call for the same category on the CallMetrics the earlier call
\* left, with the task's TaskToDict results as they are then.
CalculateAgain(task_to_dicts) ==
    /\ scoringOut.calls \in 1..(MaxCalls - 1)
    /\ settingsIn' = [settingsIn EXCEPT
                        !.task_to_dicts = task_to_dicts,
                        !.call_metrics =
                           [call_holds_count |->
                               settingsIn.call_metrics.call_holds_count,
                            script_score |-> scoringOut.script_score,
                            employee_quality_score |->
                               scoringOut.employee_quality_score]]
    /\ scoringOut' = Outcome(settingsIn')
    /\ UNCHANGED <<pipelineVars, indexerVars, audioVars, indexDocs>>

ScoringNext ==
    \/ Calculate
    \/ \E task_to_dicts \in TaskToDictChoices : CalculateAgain(task_to_dicts)

ScoringSpec == ScoringInit /\ [][ScoringNext]_vars

\* ======================================= the audio metrics on their own
\* process_metrics applied to the phrase timestamps and call holds of one
\* recognition.  Times are counted in half seconds.

MaxTick == 4
MaxStep == 5
MaxIntervals == 2
OVERLAP_DURATION_EPS == 2
PAUSE_DURATION == 10

\* Intervals of a short exchange, to the half second.
FineIntervals ==
    {iv \in [start : 0..MaxTick, end : 0..MaxTick] : iv.start < iv.end}

\* Intervals of a long call, on a grid of 2.5 seconds.
CoarseIntervals ==
    {[start |-> 5 * a, end |-> 5 * b] : a, b \in 0..MaxStep} \
        {iv \in [start : 0..(5 * MaxStep), end : 0..(5 * MaxStep)] :
            iv.start >= iv.end}

ListsOf(S, n) == UNION {[1..k -> S] : k \in 0..n}

\* phrase_timestamps.employee, phrase_timestamps.client and call_holds of a
\* RecognitionData.
AudioInputs ==
    [employee : ListsOf(FineIntervals, MaxIntervals),
     client : ListsOf(FineIntervals, MaxIntervals),
     holds : {[music |-> << >>, silent |-> << >>]}]
    \cup
    [employee : ListsOf(CoarseIntervals, MaxIntervals),
     client : ListsOf(CoarseIntervals, 1),
     holds : [music : ListsOf(CoarseIntervals, 1), silent : {<< >>}]
             \cup [music : {<< >>}, silent : ListsOf(CoarseIntervals, 1)]]

AudioInit ==
    /\ cfg = CfgGood
    /\ PipelineIdle
    /\ IndexerIdle
    /\ ScoringIdle
    /\ audioIn \in AudioInputs
    /\ audioOut = NoMetrics

Min(a, b) == IF a < b THEN a ELSE b
Max(a, b) == IF a > b THEN a ELSE b

intervals_overlap(first_interval, seconds_interval) ==
    first_interval.start < seconds_interval.end
    /\ seconds_interval.start < first_interval.end

is_interruption(employee_interval, client_interval) ==
    LET overlap_start == Max(employee_interval.start, client_interval.start)
        overlap_end == Min(employee_interval.end, client_interval.end)
        overlap_duration == overlap_end - overlap_start
    IN  /\ employee_interval.start > client_interval.start
        /\ employee_interval.start < client_interval.end
        /\ overlap_duration >= OVERLAP_DURATION_EPS

\* The inner loop without its break: one count for every client interval
\* the employee interval interrupts.
InterruptionsOfNoBreak(employee_interval, client_intervals) ==
    Cardinality({j \in 1..Len(client_intervals) :
                    is_interruption(employee_interval, client_intervals[j])})

\* find_interruptions, inner loop: 1 at the first client interval the
\* employee interval interrupts (break), 0 when there is none.
InterruptionsOf(employee_interval, client_intervals) ==
    IF \E j \in 1..Len(client_intervals) :
          is_interruption(employee_interval, client_intervals[j])
    THEN 1 ELSE 0

\* find_interruptions, outer loop from the i-th employee interval on.
RECURSIVE find_interruptions(_, _, _)
find_interruptions(employee_intervals, client_intervals, i) ==
    IF i > Len(employee_intervals)
    THEN [interruptions_count |-> 0, total_interruption_time |-> 0]
    ELSE LET n == InterruptionsOf(employee_intervals[i], client_intervals)
             rest == find_interruptions(employee_intervals, client_intervals, i + 1)
         IN  [interruptions_count |-> n + rest.interruptions_count,
              total_interruption_time |->
                 n * (employee_intervals[i].end - employee_intervals[i].start)
                 + rest.total_interruption_time]

\* sort_by(start), a stable sort: x goes behind the elements of the sorted
\* list that do not start later.
RECURSIVE InsertByStart(_, _)
InsertByStart(x, sorted) ==
    IF sorted = << >> THEN <<x>>
    ELSE IF sorted[Len(sorted)].interval.start <= x.interval.start
    THEN Append(sorted, x)
    ELSE Append(InsertByStart(x, SubSeq(sorted, 1, Len(sorted) - 1)),
                sorted[Len(sorted)])

RECURSIVE SortByStart(_)
SortByStart(seq) ==
    IF seq = << >> THEN << >>
    ELSE InsertByStart(seq[Len(seq)], SortByStart(SubSeq(seq, 1, Len(seq) - 1)))

\* count_pauses: the employee intervals chained with the client intervals,
\* each with its speaker, sorted by start.
Tagged(employee_intervals, client_intervals) ==
    SortByStart(
        [i \in 1..Len(employee_intervals) |->
            [speaker |-> Employee, interval |-> employee_intervals[i]]]
        \o [i \in 1..Len(client_intervals) |->
              [speaker |-> Client, interval |-> client_intervals[i]]])

\* count_pauses: the holds, music then silent, each widened by
\* PAUSE_DURATION on both sides.
HoldIntervals(holds) ==
    LET all == holds.music \o holds.silent
    IN  {[start |-> all[i].start - PAUSE_DURATION,
          end |-> all[i].end + PAUSE_DURATION] : i \in 1..Len(all)}

NoneEnd == [some |-> FALSE, end |-> 0]

\* The loop with previous_end kept over a client interval.
PreviousEndKept(entry, previous_end) ==
    IF entry.speaker = Employee
    THEN [some |-> TRUE, end |-> entry.interval.end]
    ELSE previous_end

\* count_pauses, end of the loop body: previous_end is the end of an
\* employee interval and None after a client interval.
PreviousEnd(entry, previous_end) ==
    IF entry.speaker = Employee
    THEN [some |-> TRUE, end |-> entry.interval.end]
    ELSE NoneEnd

\* count_pauses, the loop from the i-th sorted interval on; `pauses` keeps
\* the gaps counted.
RECURSIVE PauseLoop(_, _, _, _)
PauseLoop(intervals, hold_intervals, i, previous_end) ==
    IF i > Len(intervals)
    THEN [pause_count |-> 0, pause_sum |-> 0, pauses |-> {}]
    ELSE LET entry == intervals[i]
             counted ==
                /\ previous_end.some
                /\ entry.speaker = Employee
                /\ previous_end.end < entry.interval.start
                /\ entry.interval.start - previous_end.end >= PAUSE_DURATION
                /\ ~\E hold \in hold_intervals :
                       intervals_overlap(hold, entry.interval)
             rest == PauseLoop(intervals, hold_intervals, i + 1,
                               PreviousEnd(entry, previous_end))
         IN  IF counted
             THEN [pause_count |-> 1 + rest.pause_count,
                   pause_sum |-> (entry.interval.start - previous_end.end)
                                 + rest.pause_sum,
                   pauses |-> {[from |-> previous_end.end,
                                to |-> entry.interval.start, at |-> i]}
                              \cup rest.pauses]
             ELSE rest

count_pauses(employee_intervals, client_intervals, holds) ==
    IF Len(employee_intervals) = 0 \/ Len(client_intervals) = 0
    THEN [pause_count |-> 0, pause_sum |-> 0, pauses |-> {}]
    ELSE PauseLoop(Tagged(employee_intervals, client_intervals),
                   HoldIntervals(holds), 1, NoneEnd)

\* process_metrics: the pause and interruption fields of the CallMetrics.
ProcessMetrics ==
    /\ audioOut.result = "none"
    /\ LET p == count_pauses(audioIn.employee, audioIn.client, audioIn.holds)
           f == find_interruptions(audioIn.employee, audioIn.client, 1)
       IN  audioOut' = [result |-> "ok",
                        silence_pause_count |-> p.pause_count,
                        total_employee_silence |-> p.pause_sum,
                        pauses |-> p.pauses,
                        client_interruptions_count |-> f.interruptions_count,
                        total_client_interruptions_duration |->
                           f.total_interruption_time]
    /\ UNCHANGED <<pipelineVars, indexerVars, scoringVars, indexDocs, audioIn>>

AudioNext == ProcessMetrics

AudioSpec == AudioInit /\ [][AudioNext]_vars

\* ================================================================ properties
\* What delivery d's attempt has persisted of its outcome.
OutcomeMetrics(d) == {r \in metricsRows : r.by = d}
OutcomeDicts(d) == {r \in dictRows : r.by = d}
OutcomeReady(d) == {r \in statusLog : r.by = d /\ r.status = Ready}
\* The dictionaries an attempt builds a TaskToDict row for.
Grouped == {k \in Dicts : Len(cfg.phrases[k]) > 0}

\* C1: the outcome of one attempt is committed all-or-nothing: in every
\* reachable state either the attempt's CallMetrics row, all its TaskToDict
\* rows and its status = Ready write are persisted, or none of them is.
C1_AllOrNothing ==
    \A d \in Deliveries :
       \/ /\ OutcomeMetrics(d) = {}
          /\ OutcomeDicts(d) = {}
          /\ OutcomeReady(d) = {}
       \/ /\ Cardinality(OutcomeMetrics(d)) = 1
          /\ {r.dictionary_id : r \in OutcomeDicts(d)} = Grouped
          /\ Cardinality(OutcomeReady(d)) = 1
          /\ \A r \in OutcomeMetrics(d) \cup OutcomeDicts(d) :
                \A w \in OutcomeReady(d) : r.task_id = w.task

\* C1 witness: an attempt whose three writes were executed and whose commit
\* failed has persisted none of them, while the failure itself was recorded.
C1_CommitFailedNothingPersisted ==
    \E d \in Deliveries :
       /\ pc[d] = "nack"
       /\ err[d] = "commit"
       /\ recorded[d] = "ok"
       /\ OutcomeMetrics(d) = {} /\ OutcomeDicts(d) = {} /\ OutcomeReady(d) = {}

\* C2 (as stated): every delivery whose handler has ended received exactly one
\* settlement, an ack if and only if its transaction committed, and otherwise
\* a nack without requeue.
C2_ExactlyOneSettlement ==
    \A d \in Deliveries :
       pc[d] \in {"done", "panicked"} =>
          /\ Len(settled[d]) = 1
          /\ (settled[d][1].kind = "ack") <=> (OutcomeReady(d) # {})
          /\ settled[d][1].kind = "nack" => ~settled[d][1].requeue

\* The errors that process_task returns to process.
ProcessTaskErrors ==
    {"load_metadata", "transcribe", "index", "match", "score", "persist", "commit"}
\* The Failed writes of delivery d that are persisted.
FailedWrites(d) == {r \in statusLog : r.by = d /\ r.status = Failed}

\* C3 (as stated): whenever handling a notification has failed, at any stage,
\* and no write recording the failure has failed, the task is persisted Failed.
C3_AnyFailurePersistsFailed ==
    \A d \in Deliveries :
       (pc[d] = "nack" /\ recorded[d] # "failed") => FailedWrites(d) # {}

\* C3 (amended): an error returned by process_task (metadata load,
\* transcription, indexing, dictionary matching, scoring, the transaction) is
\* recorded: when the recording write succeeds the task is persisted Failed
\* with the error's text as reason.  A message that does not decode and a
\* task that cannot be loaded are rejected with no write at all.
C3_ProcessTaskErrorPersistsFailed ==
    \A d \in Deliveries :
       pc[d] = "nack" =>
          IF err[d] \in ProcessTaskErrors
          THEN /\ recorded[d] \in {"ok", "failed"}
               /\ recorded[d] = "ok" =>
                     FailedWrites(d) = {[task |-> ltask[d].id, status |-> Failed,
                                         reason |-> err[d], by |-> d]}
               /\ recorded[d] = "failed" => FailedWrites(d) = {}
          ELSE /\ err[d] \in {"decode", "load_task"}
               /\ recorded[d] = "none"
               /\ FailedWrites(d) = {}

\* C3 witness: a transcription error has been recorded, and the task's row is
\* Failed with that error as its reason.
C3_TranscribeErrorRecorded ==
    \E d \in Deliveries :
       /\ pc[d] = "nack"
       /\ err[d] = "transcribe"
       /\ recorded[d] = "ok"
       /\ taskRows[ltask[d].id].status = Failed
       /\ taskRows[ltask[d].id].failed_reason = "transcribe"

\* The status changes of a stored row that the state machine allows, and the
\* row's creation.
AllowedMoves ==
    {<<"norow", Processing>>, <<Processing, Ready>>, <<Processing, Failed>>,
     <<Ready, Processing>>, <<Failed, Processing>>}

\* C4 (as stated): under redelivery and any interleaving of attempts and
\* reprocess requests, a task's persisted status changes only along
\* Processing -> Ready, Processing -> Failed and {Ready, Failed} -> Processing.
C4_StatusMoves ==
    [][\A t \in TaskIds :
          taskRows'[t].status # taskRows[t].status =>
             <<taskRows[t].status, taskRows'[t].status>> \in AllowedMoves]_vars

\* C5 (as stated): a reprocess request for an existing task t that is Ready
\* or Failed sets t's own status to Processing, enqueues a message carrying
\* t's id and creates no task row.
C5_ReprocessResetsSameTask ==
    [][\A t \in TaskIds :
          (Exists(t) /\ taskRows[t].status \in {Ready, Failed} /\ DoReprocess(t)) =>
             /\ taskRows'[t].status = Processing
             /\ queue'[t] = queue[t] + 1
             /\ {u \in TaskIds : taskRows'[u] # NoRow} = StoredIds]_vars

\* C6: a reprocess request for a task whose status is Processing is answered
\* with TaskAlreadyProcessing, which maps to HTTP 400; no task row changes
\* and no message is published.
C6_ProcessingRejected ==
    [][\A t \in TaskIds :
          (Exists(t) /\ taskRows[t].status = Processing /\ DoReprocess(t)) =>
             /\ resp' = "TaskAlreadyProcessing"
             /\ StatusCode(resp') = 400
             /\ taskRows' = taskRows
             /\ queue' = queue]_vars

\* C6 witness: a reprocess request has been rejected as already processing
\* while a task is Processing and its message is waiting in the queue.
C6_RejectedWhileProcessing ==
    /\ resp = "TaskAlreadyProcessing"
    /\ \E t \in TaskIds : taskRows[t].status = Processing /\ queue[t] = 1
    /\ Cardinality(StoredIds) = 1

IsPrefix(s, t) == Len(s) <= Len(t) /\ \A i \in 1..Len(s) : s[i] = t[i]
\* How often stage x was started in the sequence s.
Count(s, x) == Cardinality({i \in 1..Len(s) : s[i] = x})
IndexWrites(d) == {doc \in indexDocs : doc.by = d}

C8_NoStageAfterFailure ==
    \A d \in Deliveries :
       LET started(x) == Count(trace[d], x) > 0
           noReads == \A k \in Dicts : reads[d][k] = 0
           noOutcome == /\ ~started("persist")
                        /\ txn[d] = << >>
                        /\ OutcomeMetrics(d) = {} /\ OutcomeDicts(d) = {}
                        /\ OutcomeReady(d) = {}
       IN  /\ err[d] \in {"load_metadata", "transcribe"} =>
                /\ IndexWrites(d) = {} /\ ~started("index")
                /\ noReads /\ ~started("match") /\ ~started("score")
                /\ noOutcome
           /\ err[d] = "index" =>
                /\ noReads /\ ~started("match") /\ ~started("score")
                /\ noOutcome
           /\ err[d] = "match" => ~started("score") /\ noOutcome
           /\ err[d] = "score" => noOutcome
           /\ err[d] \in {"persist", "commit"} =>
                OutcomeMetrics(d) = {} /\ OutcomeReady(d) = {}

\* C8 witness: an attempt whose index write failed was recorded and is about
\* to be rejected, having started nothing after the index stage.
C8_IndexFailureStopsAttempt ==
    \E d \in Deliveries :
       /\ pc[d] = "nack"
       /\ err[d] = "index"
       /\ trace[d] = <<"transcribe", "index">>

\* C9 (as stated, read for the dictionaries that have phrases): an attempt
\* that ran to completion made exactly one index read per dictionary.
C9_OneReadPerDictionary ==
    \A d \in Deliveries :
       pc[d] = "ack" => \A k \in Grouped : reads[d][k] = 1

\* C9 (amended): an attempt that ran to completion made exactly one
\* transcription call, one index write and one transaction; for a dictionary
\* with phrases it made one index read per phrase, in order, up to and
\* including the first phrase found (all of them when none is found), and
\* for a dictionary without phrases none.
C9_ReadsPerPhraseUntilFound ==
    \A d \in Deliveries :
       pc[d] = "ack" =>
          /\ Count(trace[d], "transcribe") = 1
          /\ Count(trace[d], "index") = 1
          /\ Cardinality(IndexWrites(d)) = 1
          /\ Count(trace[d], "persist") = 1
          /\ Cardinality(OutcomeReady(d)) = 1
          /\ \A k \in Dicts \ Grouped : reads[d][k] = 0
          /\ \A k \in Grouped :
                \E r \in OutcomeDicts(d) :
                   /\ r.dictionary_id = k
                   /\ reads[d][k] \in 1..Len(cfg.phrases[k])
                   /\ ~r.contains => reads[d][k] = Len(cfg.phrases[k])
                   /\ r.contains =>
                        SearchPhrase(r.task_id, cfg.phrases[k][reads[d][k]],
                                     cfg.participant[k]) = "found"

\* C9 witness: a completed attempt that needed two index reads for one
\* dictionary and none for another.
C9_TwoReadsForOneDictionary ==
    \E d \in Deliveries :
       /\ pc[d] = "ack"
       /\ reads[d][1] = 2
       /\ reads[d][2] = 0

\* C10: errors are isolated per task: a step by which one delivery's attempt
\* fails, records its failure, panics or is rejected changes no other task's
\* row, no metrics or dictionary row, no other delivery's handler or
\* settlement, and leaves the dispatcher loop running.
C10_FailureIsolated ==
    [][\A d \in Deliveries :
          ( \/ pc'[d] # pc[d] /\ pc'[d] \in {"failed", "nack", "panicked"}
            \/ pc[d] = "nack" /\ pc'[d] = "done" ) =>
             /\ \A t \in TaskIds : t # ltask[d].id => taskRows'[t] = taskRows[t]
             /\ metricsRows' = metricsRows
             /\ dictRows' = dictRows
             /\ \A e \in Deliveries \ {d} :
                   /\ settled'[e] = settled[e]
                   /\ pc'[e] = pc[e]
                   /\ txn'[e] = txn[e]
             /\ dispatcher = "running"
             /\ dispatcher' = "running"]_vars

\* C10 witness: the later of two deliveries for different tasks has failed
\* and been rejected while the earlier one is still in its pipeline, with the
\* dispatcher running.
C10_FailedBesideRunning ==
    /\ dispatcher = "running"
    /\ msg[1] \in TaskIds /\ msg[2] \in TaskIds
    /\ msg[1] # msg[2]
    /\ pc[2] = "done"
    /\ Len(settled[2]) = 1 /\ settled[2][1].kind = "nack"
    /\ taskRows[msg[2]].status = Failed
    /\ pc[1] = "match"
    /\ taskRows[msg[1]].status = Processing

\* ------------------------------------------------ properties of the indexer
\* The terms a query for `phrase` is built from occur in the terms `tokens`
\* of a field: as an adjacent run for several words, as a term for one.
QueryMatches(phrase, tokens) ==
    LET words == SplitWhitespace(phrase)
    IN  IF Len(words) > 1 THEN IsAdjacentRun(words, tokens)
        ELSE Len(words) = 1 /\ HasTerm(words[1], tokens)

\* C11: once a caller's index call has returned successfully, the document
\* it wrote is in the snapshot that searches read, in every later state and
\* whatever the other callers' index calls are doing; a search it then made
\* for terms of its own document found them.
C11_OwnDocumentVisible ==
    \A c \in Callers :
       icall[c].pc \in {"indexed", "searched"} =>
          /\ \E doc \in indexDocs :
                doc.by = c /\ doc.uuid = icall[c].id /\ doc.payload = icall[c].data
          /\ ( /\ icall[c].pc = "searched"
               /\ QueryMatches(icall[c].phrase,
                     CustomTokenizer(Transcript(icall[c].data, icall[c].speaker))) )
             => icall[c].found = "found"

\* C11 witness: a caller has searched its own document and found the phrase
\* while another caller's index call for another id is between its commit
\* and its reload.
C11_FoundDuringOtherWrite ==
    \E c1, c2 \in Callers :
       /\ icall[c1].pc = "searched"
       /\ icall[c1].found = "found"
       /\ icall[c2].pc = "reload"
       /\ icall[c2].id # icall[c1].id

\* The caller is inside the add-document/commit/reload section.
InSection(c) == icall[c].pc \in {"add", "commit", "reload"}

\* C12: physical index writes are serialized: at most one index call is in
\* its add-document/commit/reload section, and it is the holder of the
\* writer's mutex, which is free whenever no call is in the section (so it is
\* released on success and on error); every index call waiting for the mutex
\* eventually returns; a search is never blocked, whoever holds the mutex.
C12_WritesSerialized ==
    /\ [](\A c1, c2 \in Callers : (InSection(c1) /\ InSection(c2)) => c1 = c2)
    /\ [](\A c \in Callers : InSection(c) <=> writerLock = c)
    /\ \A c \in Callers :
          (icall[c].pc = "lock") ~>
             (icall[c].pc \in {"indexed", "index_failed", "searched"})
    /\ [](\A c \in Callers :
            icall[c].pc = "indexed" =>
               ENABLED (\E phrase \in QueryPhrases :
                           IndexerSearch(c, phrase, Employee)))

\* C12 witness: one index call has ended in an error and another caller is
\* inside the section, holding the mutex the failed call released, while the
\* failed call's document is still uncommitted in the writer.
C12_LockTakenAfterFailure ==
    \E c1, c2 \in Callers :
       /\ icall[c1].pc = "index_failed"
       /\ InSection(c2)
       /\ writerLock = c2
       /\ \E i \in 1..Len(writerPending) : writerPending[i].by = c1

\* C13: search_phrase answers true exactly when the phrase's
\* whitespace-separated tokens occur as an adjacent run, in order, among the
\* whitespace-separated tokens of the given speaker's transcript in a
\* searchable document with the same task id.
C13_FoundIffAdjacentTokens ==
    \A id \in TaskIds : \A phrase \in QueryPhrases : \A speaker \in {Employee, Client} :
       SearchPhrase(id, phrase, speaker) = "found" <=>
          \E doc \in indexDocs :
             /\ doc.uuid = id
             /\ IsAdjacentRun(SplitWhitespace(phrase),
                              SplitWhitespace(Transcript(doc.payload, speaker)))

\* C14: the phrase is analyzed like the indexed text: whenever the phrase's
\* terms under custom_tokenizer occur as an adjacent run among the terms of
\* the speaker's field in a searchable document with the same task id,
\* search_phrase answers true.
C14_PhraseAnalyzedLikeText ==
    \A id \in TaskIds : \A phrase \in QueryPhrases : \A speaker \in {Employee, Client} :
       ( \E doc \in indexDocs :
            /\ doc.uuid = id
            /\ IsAdjacentRun(CustomTokenizer(phrase), Field(doc, speaker)) )
       => SearchPhrase(id, phrase, speaker) = "found"

\* The positions in the committed segments of the searchable documents with
\* task id `id`, in the order they were written.
Searchable(id) ==
    {i \in 1..Len(committedDocs) :
        committedDocs[i].uuid = id /\ committedDocs[i] \in indexDocs}

\* C15: when documents have been indexed under a task id, search_phrase for
\* that id answers by the most recently indexed of them: true exactly when
\* the query's terms occur in that document's field.
C15_LatestDocumentDecides ==
    \A id \in TaskIds : \A phrase \in QueryPhrases : \A speaker \in {Employee, Client} :
       Searchable(id) # {} =>
          LET latest == committedDocs[CHOOSE i \in Searchable(id) :
                                         \A j \in Searchable(id) : j <= i]
          IN  SearchPhrase(id, phrase, speaker) = "found" <=>
                 QueryMatches(phrase, Field(latest, speaker))

\* C16: in every reachable state there is at most one TaskToDict row for a
\* task and a dictionary: an attempt that commits rows for a task leaves no
\* second row beside an earlier attempt's row for the same pair.
C16_OneRowPerTaskAndDictionary ==
    \A r1, r2 \in dictRows :
       (r1.task_id = r2.task_id /\ r1.dictionary_id = r2.dictionary_id)
          => r1 = r2

\* C17: in every reachable state there is at most one CallMetrics row for a
\* task, and every attempt that committed Ready wrote exactly one.
C17_OneMetricsRowPerTask ==
    /\ \A r1, r2 \in metricsRows : r1.task_id = r2.task_id => r1 = r2
    /\ \A d \in Deliveries :
          OutcomeReady(d) # {} => Cardinality(OutcomeMetrics(d)) = 1

\* ------------------------------------------ properties of the scoring engine
\* The sum of the weights of the category handed to the engine.
WeightSum ==
    SumSeq([i \in 1..Len(settingsIn.items) |-> settingsIn.items[i].score_weight])

\* C18: a call for a category that has no items, or whose weights sum to
\* zero, ends in an error: no category result is returned and the score
\* fields of the CallMetrics stay as they were handed in.
C18_FailsOnEmptyOrZeroSum ==
    ( /\ scoringOut.result # "none"
      /\ (Len(settingsIn.items) = 0 \/ WeightSum = 0) )
    => /\ scoringOut.result = "err"
       /\ scoringOut.scores = << >>
       /\ scoringOut.script_score = settingsIn.call_metrics.script_score
       /\ scoringOut.employee_quality_score =
             settingsIn.call_metrics.employee_quality_score

\* weight * 100 / sum rounded to the nearest integer.
RoundedShare(weight, sum) == (200 * weight + sum) \div (2 * sum)

\* C19: for a category whose weights sum to S > 0, the score of every
\* matched item is weight * 100 / S rounded to the nearest integer, the score
\* of every other item is 0, and the category total is the sum of the item
\* scores.
C19_ItemScoreRounded ==
    (scoringOut.result = "ok" /\ WeightSum > 0) =>
       /\ \A i \in 1..Len(settingsIn.items) :
             scoringOut.scores[i] =
                IF ItemMatch(settingsIn.items[i], settingsIn)
                THEN RoundedShare(settingsIn.items[i].score_weight, WeightSum)
                ELSE 0
       /\ scoringOut.total_score = SumSeq(scoringOut.scores)

\* C20: for a category whose items all have a positive weight the total
\* lies in 0..100, and when every item is matched the total is exactly 100;
\* a Script category's total of 100 is then the script score written to a
\* CallMetrics that had none, and a single matched item scores 100.
C20_TotalNormalizedTo100 ==
    ( /\ scoringOut.result = "ok"
      /\ \A i \in 1..Len(settingsIn.items) : settingsIn.items[i].score_weight > 0 )
    => /\ scoringOut.total_score \in 0..100
       /\ (\A i \in 1..Len(settingsIn.items) :
              ItemMatch(settingsIn.items[i], settingsIn))
          => /\ scoringOut.total_score = 100
             /\ (settingsIn.kind = Script /\ settingsIn.call_metrics.script_score = 0)
                   => scoringOut.script_score = 100
             /\ Len(settingsIn.items) = 1 => scoringOut.scores[1] = 100

\* The items of the category handed to the engine that are dictionary items.
DictionaryItems ==
    {i \in 1..Len(settingsIn.items) : settingsIn.items[i].type = "dictionary"}

\* C21: a dictionary item with at least one contains=false binding is
\* matched exactly when every binding whose dictionary the task has a result
\* for carries that result; a dictionary without a result counts as agreeing.
C21_AbsenceRuleAllAgree ==
    scoringOut.result = "ok" =>
       \A i \in DictionaryItems :
          (\E b \in settingsIn.items[i].dicts : ~b.contains) =>
             ( scoringOut.item_match[i] <=>
                  \A b \in settingsIn.items[i].dicts :
                     b.dictionary_id \in DOMAIN settingsIn.task_to_dicts =>
                        settingsIn.task_to_dicts[b.dictionary_id] = b.contains )

\* C21 witness: an item bound to dictionary 1 with contains=false and to
\* dictionary 2 with contains=true is matched for a task observed not to
\* contain dictionary 1 and with no result for dictionary 2.
C21_MatchedWithUnobservedDictionary ==
    /\ scoringOut.result = "ok"
    /\ DOMAIN settingsIn.task_to_dicts = {1}
    /\ ~settingsIn.task_to_dicts[1]
    /\ \E i \in DictionaryItems :
          /\ settingsIn.items[i].dicts =
                { [dictionary_id |-> 1, contains |-> FALSE],
                  [dictionary_id |-> 2, contains |-> TRUE] }
          /\ scoringOut.item_match[i]

\* C22 as stated: a dictionary item all of whose bindings have contains=true
\* is matched exactly when some binding agrees, a dictionary without a result
\* counting as agreeing.
C22_PresenceRuleAnyAgreesDefaultTrue ==
    scoringOut.result = "ok" =>
       \A i \in DictionaryItems :
          (\A b \in settingsIn.items[i].dicts : b.contains) =>
             ( scoringOut.item_match[i] <=>
                  \E b \in settingsIn.items[i].dicts :
                     b.dictionary_id \in DOMAIN settingsIn.task_to_dicts =>
                        settingsIn.task_to_dicts[b.dictionary_id] = b.contains )

\* C22 amended: a dictionary item all of whose bindings have contains=true
\* is matched exactly when the task has a result for the dictionary of some
\* binding and that result is true; a dictionary without a result does not
\* count as agreeing.
C22_PresenceRuleAnyObserved ==
    scoringOut.result = "ok" =>
       \A i \in DictionaryItems :
          (\A b \in settingsIn.items[i].dicts : b.contains) =>
             ( scoringOut.item_match[i] <=>
                  \E b \in settingsIn.items[i].dicts :
                     /\ b.dictionary_id \in DOMAIN settingsIn.task_to_dicts
                     /\ settingsIn.task_to_dicts[b.dictionary_id] )

\* C22 witness: an item bound with contains=true to dictionaries 1 and 2 is
\* not matched for a task observed not to contain dictionary 1 and with no
\* result for dictionary 2.
C22_UnmatchedWithUnobservedDictionary ==
    /\ scoringOut.result = "ok"
    /\ DOMAIN settingsIn.task_to_dicts = {1}
    /\ ~settingsIn.task_to_dicts[1]
    /\ \E i \in DictionaryItems :
          /\ settingsIn.items[i].dicts =
                { [dictionary_id |-> 1, contains |-> TRUE],
                  [dictionary_id |-> 2, contains |-> TRUE] }
          /\ ~scoringOut.item_match[i]

\* C23: a call of the engine leaves a non-zero script score and a non-zero
\* quality score as they are, whatever total it computes; and a later call
\* with the arguments of the call before it leaves both fields as that call
\* left them.
C23_ScoresWriteOnce ==
    [][ /\ scoringOut.script_score # 0 =>
              scoringOut'.script_score = scoringOut.script_score
        /\ scoringOut.employee_quality_score # 0 =>
              scoringOut'.employee_quality_score = scoringOut.employee_quality_score
        /\ ( /\ scoringOut.calls >= 1
             /\ scoringOut'.calls = scoringOut.calls + 1
             /\ settingsIn'.task_to_dicts = settingsIn.task_to_dicts )
           => /\ scoringOut'.script_score = scoringOut.script_score
              /\ scoringOut'.employee_quality_score =
                    scoringOut.employee_quality_score ]_vars

\* C23 witness: a second call on a Script category computed a total other
\* than the non-zero script score the first call wrote, and the score is
\* still the first call's.
C23_SecondTotalNotWritten ==
    /\ scoringOut.calls = 2
    /\ scoringOut.result = "ok"
    /\ settingsIn.kind = Script
    /\ settingsIn.call_metrics.script_score # 0
    /\ scoringOut.total_score # settingsIn.call_metrics.script_score
    /\ scoringOut.script_score = settingsIn.call_metrics.script_score

\* ------------------------------------------- properties of the audio metrics
\* The employee intervals that interrupt some client interval: they start
\* strictly inside it and share at least OVERLAP_DURATION_EPS with it.
Interrupting ==
    {i \in 1..Len(audioIn.employee) :
        \E j \in 1..Len(audioIn.client) :
           LET e == audioIn.employee[i]
               c == audioIn.client[j]
           IN  /\ c.start < e.start
               /\ e.start < c.end
               /\ Min(e.end, c.end) - Max(e.start, c.start) >= OVERLAP_DURATION_EPS}

\* C24: the interruption count is the number of employee intervals that
\* interrupt some client interval (each counted once, pairs sharing less
\* than 1.0s not counted), and the total interruption duration is the sum of
\* the lengths of the counted employee intervals.
C24_InterruptionsCounted ==
    audioOut.result = "ok" =>
       /\ audioOut.client_interruptions_count = Cardinality(Interrupting)
       /\ audioOut.total_client_interruptions_duration =
             SumSeq([i \in 1..Len(audioIn.employee) |->
                       IF i \in Interrupting
                       THEN audioIn.employee[i].end - audioIn.employee[i].start
                       ELSE 0])

\* C24 witness: one employee interval interrupts two client intervals and is
\* counted once, with its own length as the duration.
C24_CountedOnceForTwoClients ==
    /\ audioOut.result = "ok"
    /\ Len(audioIn.employee) = 1
    /\ Len(audioIn.client) = 2
    /\ \A j \in 1..2 : is_interruption(audioIn.employee[1], audioIn.client[j])
    /\ audioOut.client_interruptions_count = 1
    /\ audioOut.total_client_interruptions_duration =
          audioIn.employee[1].end - audioIn.employee[1].start

\* The intervals of both speakers in start order, as count_pauses walks them.
InStartOrder == Tagged(audioIn.employee, audioIn.client)

\* C25: a gap of at least 5.0s between an employee interval and the next
\* interval in start order, an employee interval too, is counted as a pause
\* exactly when no hold, widened by 5.0s on both sides, overlaps the gap from
\* the earlier interval's end to the later one's start.
C25_PauseIffNoHoldOverGap ==
    ( /\ audioOut.result = "ok"
      /\ Len(audioIn.employee) > 0
      /\ Len(audioIn.client) > 0 )
    => \A i \in 2..Len(InStartOrder) :
          ( /\ InStartOrder[i - 1].speaker = Employee
            /\ InStartOrder[i].speaker = Employee
            /\ InStartOrder[i].interval.start - InStartOrder[i - 1].interval.end
                  >= PAUSE_DURATION )
          => ( (\E p \in audioOut.pauses : p.at = i) <=>
               ~\E hold \in HoldIntervals(audioIn.holds) :
                    intervals_overlap(hold,
                       [start |-> InStartOrder[i - 1].interval.end,
                        end |-> InStartOrder[i].interval.start]) )

RECURSIVE SumGaps(_)
SumGaps(S) ==
    IF S = {} THEN 0
    ELSE LET p == CHOOSE x \in S : TRUE
         IN  (p.to - p.from) + SumGaps(S \ {p})

\* C26: pauses are counted only over gaps between two employee intervals
\* adjacent in start order: every counted gap runs from the end of an
\* employee interval to the start of the next interval in start order, an
\* employee interval too; count and duration are those of the counted gaps;
\* a gap between two employee intervals with a client interval starting
\* between them is never counted; and both are 0 when a speaker has no
\* intervals.
C26_OnlyAdjacentEmployeeGaps ==
    audioOut.result = "ok" =>
       /\ (Len(audioIn.employee) = 0 \/ Len(audioIn.client) = 0) =>
             /\ audioOut.silence_pause_count = 0
             /\ audioOut.total_employee_silence = 0
       /\ \A p \in audioOut.pauses :
             /\ p.at \in 2..Len(InStartOrder)
             /\ InStartOrder[p.at - 1].speaker = Employee
             /\ InStartOrder[p.at].speaker = Employee
             /\ p.from = InStartOrder[p.at - 1].interval.end
             /\ p.to = InStartOrder[p.at].interval.start
       /\ audioOut.silence_pause_count = Cardinality(audioOut.pauses)
       /\ audioOut.total_employee_silence = SumGaps(audioOut.pauses)
       /\ ( \A a, b \in 1..Len(audioIn.employee) :
               audioIn.employee[a].start < audioIn.employee[b].start =>
                  \E j \in 1..Len(audioIn.client) :
                     /\ audioIn.employee[a].start < audioIn.client[j].start
                     /\ audioIn.client[j].start < audioIn.employee[b].start )
          => audioOut.silence_pause_count = 0

\* C26 witness: two employee intervals 7.5s apart with a client interval
\* filling the gap and no holds: nothing is counted.
C26_ClientBetweenNotCounted ==
    /\ audioOut.result = "ok"
    /\ audioIn.employee = << [start |-> 0, end |-> 5], [start |-> 20, end |-> 25] >>
    /\ audioIn.client = << [start |-> 5, end |-> 20] >>
    /\ audioIn.holds = [music |-> << >>, silent |-> << >>]
    /\ audioOut.silence_pause_count = 0
    /\ audioOut.total_employee_silence = 0

\* ============================================ creation, matching, recovery
\* The task rows a step inserts and the task ids it publishes.
InsertedBy == {t \in TaskIds : taskRows[t] = NoRow /\ taskRows'[t] # NoRow}
PublishedBy == {t \in TaskIds : queue'[t] = queue[t] + 1}

\* C27: a creation request that succeeds stores one task with status
\* Processing and publishes exactly one message with that task's id; one whose
\* file hash is already stored is answered FileAlredyExists, stores no task
\* and publishes no message; and so every creation request publishes exactly
\* the ids of the tasks it stores.
C27_PublishedAreCreated ==
    [][\A h \in Hashes : DoCreate(h) =>
          /\ resp' = "created" =>
                /\ InsertedBy = {NewId}
                /\ taskRows'[NewId].status = Processing
                /\ PublishedBy = {NewId}
                /\ \A p \in Payloads \ {NewId} : queue'[p] = queue[p]
          /\ h \in hashes =>
                /\ resp' = "FileAlredyExists"
                /\ taskRows' = taskRows
                /\ queue' = queue
          /\ PublishedBy = InsertedBy]_vars

\* The dictionaries that have at least one phrase.
WithPhrases == {k \in Dicts : Len(cfg.phrases[k]) > 0}
\* Some phrase of dictionary k is found by search_phrase in the channel of
\* k's participant of the documents indexed under id.
SomePhraseFound(id, k) ==
    \E i \in 1..Len(cfg.phrases[k]) :
        SearchPhrase(id, cfg.phrases[k][i], cfg.participant[k]) = "found"
\* The iteration for dictionary k of delivery d's attempt ran to its end.
Matched(d, k) == MatchDict(d, k) /\ pc'[d] \notin {"failed", "panicked"}
EntryFor(d, k) ==
    {x \in t2d'[d] : x.dictionary_id = k} =
        {[dictionary_id |-> k, contains |-> SomePhraseFound(ltask[d].id, k)]}

\* C28 as stated: an attempt whose matching stage runs to its end has built
\* one TaskToDict entry for every dictionary, whose contains value is true
\* exactly when some phrase of the dictionary is found by search_phrase in the
\* channel of the dictionary's participant.
C28_EntryPerDictionary ==
    [][\A d \in Deliveries : \A k \in Dicts :
          Matched(d, k) =>
             /\ EntryFor(d, k)
             /\ pc'[d] = "score" =>
                   {x.dictionary_id : x \in t2d'[d]} = Dicts]_vars

\* C28 amended: an attempt whose matching stage runs to its end has built one
\* TaskToDict entry for every dictionary that has at least one phrase, and
\* none for a dictionary without phrases; the entry's contains value is true
\* exactly when some phrase of the dictionary is found by search_phrase in the
\* channel of the dictionary's participant.
C28_EntryPerDictionaryWithPhrases ==
    [][\A d \in Deliveries : \A k \in Dicts :
          Matched(d, k) =>
             /\ EntryFor(d, k)
             /\ pc'[d] = "score" =>
                   {x.dictionary_id : x \in t2d'[d]} = WithPhrases]_vars

\* C28 witness: an attempt has matched both dictionaries and is about to
\* score; "hi", a phrase of the employee's dictionary, was said by the client
\* only, and the entry of that dictionary has contains = false.
C28_PhraseOnOtherChannelNotFound ==
    \E d \in Deliveries :
        /\ pc[d] = "score"
        /\ WithPhrases = Dicts
        /\ t2d[d] = {[dictionary_id |-> 1, contains |-> FALSE],
                     [dictionary_id |-> 2, contains |-> FALSE]}
        /\ \E doc \in indexDocs :
              doc.uuid = ltask[d].id /\ HasTerm(<<"h", "i">>, doc.client)

\* A message of task t was handed to a handler and is not settled.
InFlight(t) == \E d \in 1..nDelivered : msg[d] = t /\ pc[d] # "done"
\* Task t is Processing and no message of it is waiting or in flight.
Stuck(t) ==
    /\ Exists(t)
    /\ taskRows[t].status = Processing
    /\ queue[t] = 0
    /\ ~InFlight(t)

\* C29: a task left in status Processing with no message of it waiting or in
\* flight can be brought back by the reprocess action: in every such state a
\* reprocess request for the task is accepted and a message is enqueued.
C29_StuckTaskReprocessed ==
    [][\A t \in TaskIds :
          (Stuck(t) /\ DoReprocess(t)) =>
             /\ resp' = "ok"
             /\ \E p \in TaskIds : queue'[p] = queue[p] + 1]_vars

\* C30: search_phrase answers every phrase, an empty or whitespace-only one
\* included, with a boolean or an error value, and such a stored phrase never
\* ends an attempt without a result: every search_phrase call made for a
\* dictionary answers found or not found or returns an error, and the
\* attempt goes on matching, goes on to scoring, or fails with that error.
C30_EveryPhraseAnswered ==
    [][\A d \in Deliveries : \A k \in Dicts :
          MatchDict(d, k) =>
             /\ \A i \in 1..reads'[d][k] :
                   SearchPhrase(ltask[d].id, cfg.phrases[k][i], cfg.participant[k])
                       \in {"found", "absent"}
             /\ pc'[d] \in {"match", "score", "failed"}]_vars

====
